---------------------------- MODULE Spec2Model ----------------------------
(***************************************************************************)
(* Pixel-level semantic labeling evaluation                                *)
(* (cityscapesscripts/evaluation/                                          *)
(*  evalPixelLevelSemanticLabelingCustomAllBetween.py).                    *)
(*                                                                         *)
(* The model follows evaluateImgLists: the confusion matrix and the        *)
(* instance statistics are created, every image pair is accumulated by     *)
(* evaluatePair, and the scores are derived from the final accumulators.   *)
(* Floating point numbers are modelled as exact rationals <<num, den>>     *)
(* with den > 0, and float('nan') as <<0, 0>>.                             *)
(***************************************************************************)
EXTENDS Integers, Sequences, FiniteSets, TLC

VARIABLES
    pc,          \* "start", "loop", "report", "score", "done" or "aborted"
    alphabet,    \* the pixels the images of this run are made of
    lenPred,     \* len(predictionImgList)
    lenGt,       \* len(groundTruthImgList)
    i,           \* the number of pairs evaluated
    confMatrix,
    instStats,
    nbPixels,
    pair,        \* the pair evaluatePair was last called with
    err,         \* the error that ended the run, "none" otherwise
    failAt,      \* the pixel at which the pixel loop stopped, 0 otherwise
    results      \* <<allResultsDict>> once it is created, <<>> before

(***************************************************************************)
(* Bounds of the model.                                                    *)
(***************************************************************************)
\* the image lists hold at most MaxPairs entries
MaxPairs == 2
\* the images of a run hold at most MaxTotalPixels pixels in all
MaxTotalPixels == 4
\* instance sizes are compared up to MaxInstSize pixels
MaxInstSize == 6

(***************************************************************************)
(* Rational arithmetic (the model of Python floats).                       *)
(***************************************************************************)
NaN == <<0, 0>>

isnan(x) == x[2] = 0

Abs(n) == IF n < 0 THEN -n ELSE n

RECURSIVE GCD(_, _)
GCD(a, b) == IF b = 0 THEN a ELSE GCD(b, a % b)

Norm(q) ==
    IF q[2] = 0 THEN NaN
    ELSE LET s == IF q[2] < 0 THEN -1 ELSE 1
             g == GCD(Abs(q[1]), Abs(q[2]))
         IN  <<(s * q[1]) \div g, (s * q[2]) \div g>>

Rat(n) == <<n, 1>>

RAdd(a, b) == Norm(<<a[1] * b[2] + b[1] * a[2], a[2] * b[2]>>)

RMul(a, b) == Norm(<<a[1] * b[1], a[2] * b[2]>>)

\* a / b for b # 0
RDiv(a, b) == Norm(<<a[1] * b[2], a[2] * b[1]>>)

RLeq(a, b) == a[1] * b[2] <= b[1] * a[2]

RIsZero(a) == a[2] # 0 /\ a[1] = 0

(***************************************************************************)
(* The label taxonomy (csHelpers / labels.py): a reduced table that holds  *)
(* every shape of label the evaluation distinguishes: a negative id, ids   *)
(* that are ignored, gaps in the ids (1, 2, 3), labels with and without    *)
(* instances, a category whose members all have instances (human), one     *)
(* with an ignored member and a negative member (vehicle) and one that     *)
(* mixes labels with and without instances (object).  Ten labels have an   *)
(* id of 4 or more, so that the matrix holds 90 cells off the diagonal     *)
(* with both ids of 4 or more.                                             *)
(***************************************************************************)
Label(n, j, c, h, g) ==
    [name |-> n, id |-> j, category |-> c, hasInstances |-> h, ignoreInEval |-> g]

labels == <<
    Label("unlabeled",      0, "void",    FALSE, TRUE),
    Label("static",         4, "void",    FALSE, TRUE),
    Label("pole",           5, "object",  FALSE, FALSE),
    Label("bicycle",        6, "object",  TRUE,  FALSE),
    Label("road",           7, "flat",    FALSE, FALSE),
    Label("sidewalk",       8, "flat",    FALSE, FALSE),
    Label("person",         9, "human",   TRUE,  FALSE),
    Label("car",           10, "vehicle", TRUE,  FALSE),
    Label("caravan",       11, "vehicle", TRUE,  TRUE),
    Label("building",      12, "construction", FALSE, FALSE),
    Label("wall",          13, "construction", FALSE, FALSE),
    Label("license plate", -1, "vehicle", FALSE, TRUE) >>

LabelIds == {labels[k].id : k \in DOMAIN labels}

id2label == [j \in LabelIds |-> labels[CHOOSE k \in DOMAIN labels : labels[k].id = j]]

Categories == {labels[k].category : k \in DOMAIN labels}

\* category -> the labels of that category, in table order
category2labels ==
    [c \in Categories |-> SelectSeq(labels, LAMBDA l : l.category = c)]

\* args.avgClassSize, in units of a thousand pixels (truncated)
avgClassSize ==
    [n \in {"bicycle", "caravan", "person", "car"} |->
        CASE n = "bicycle" -> 4
          [] n = "caravan" -> 36
          [] n = "person"  -> 3
          [] n = "car"     -> 12]

(***************************************************************************)
(* Sequence helpers.                                                       *)
(***************************************************************************)
RECURSIVE SumUpTo(_, _)
SumUpTo(s, k) == IF k = 0 THEN 0 ELSE s[k] + SumUpTo(s, k - 1)

SumSeq(s) == SumUpTo(s, Len(s))

SeqToSet(s) == {s[k] : k \in DOMAIN s}

\* the elements of a finite set of integers, ascending
RECURSIVE SortedSeq(_)
SortedSeq(S) ==
    IF S = {} THEN <<>>
    ELSE LET m == CHOOSE x \in S : \A y \in S : x <= y
         IN  <<m>> \o SortedSeq(S \ {m})

(***************************************************************************)
(* generateMatrix                                                          *)
(***************************************************************************)
\* args.evalLabels: all ids >= 0, regardless of being ignored, in table order
evalLabels ==
    LET kept == SelectSeq(labels, LAMBDA l : ~(l.id < 0))
    IN  [k \in DOMAIN kept |-> kept[k].id]

maxId ==
    LET ids == SeqToSet(evalLabels)
    IN  CHOOSE m \in ids : \A x \in ids : x <= m

generateMatrix ==
    LET n == maxId
    IN  [r \in 0..n |-> [c \in 0..n |-> 0]]

\* confMatrix[rows, :][:, cols].sum() for index lists rows and cols
RECURSIVE RowSum(_, _, _)
RowSum(row, cols, b) == IF b = 0 THEN 0 ELSE row[cols[b]] + RowSum(row, cols, b - 1)

RECURSIVE SubSumFrom(_, _, _, _)
SubSumFrom(m, rows, cols, a) ==
    IF a = 0 THEN 0
    ELSE RowSum(m[rows[a]], cols, Len(cols)) + SubSumFrom(m, rows, cols, a - 1)

SubSum(m, rows, cols) == SubSumFrom(m, rows, cols, Len(rows))

AllCols ==
    LET n == maxId
    IN  [k \in 1..(n + 1) |-> k - 1]

\* a row of the matrix as generateMatrix builds it
emptyRow == [c \in 0..maxId |-> 0]

\* confMatrix.sum(): the sum of the rows r, r - 1, ..., 0; the rows without
\* a pixel add nothing
RECURSIVE SumOfRows(_, _)
SumOfRows(m, r) ==
    IF r < 0 THEN 0
    ELSE (IF m[r] = emptyRow THEN 0 ELSE RowSum(m[r], AllCols, maxId + 1))
             + SumOfRows(m, r - 1)

MatrixSum(m) == SumOfRows(m, maxId)

(***************************************************************************)
(* generateInstanceStats                                                   *)
(***************************************************************************)
ZeroStats == [tp |-> 0, fn |-> 0, tpWeighted |-> Rat(0), fnWeighted |-> Rat(0)]

\* the names of the labels that get an entry in instanceStats["classes"]
instClassNames ==
    {labels[k].name : k \in {j \in DOMAIN labels :
                                labels[j].hasInstances /\ ~labels[j].ignoreInEval}}

\* the labelIds list built for a category: members with id < 0 are skipped
categoryLabelIds(category) ==
    LET kept == SelectSeq(category2labels[category], LAMBDA l : ~(l.id < 0))
    IN  [k \in DOMAIN kept |-> kept[k].id]

\* faulty variant: a member with a negative id excludes the category
allInstancesOfAllMembers(category) ==
    \A k \in DOMAIN category2labels[category] :
        category2labels[category][k].hasInstances

\* allInstances: no member with id >= 0 lacks instances
allInstances(category) ==
    \A k \in DOMAIN category2labels[category] :
        LET l == category2labels[category][k]
        IN  l.id < 0 \/ l.hasInstances

instCategories == {c \in Categories : allInstances(c)}

generateInstanceStats ==
    [classes    |-> [n \in instClassNames |-> ZeroStats],
     categories |-> [c \in instCategories |->
                        [tp |-> 0, fn |-> 0,
                         tpWeighted |-> Rat(0), fnWeighted |-> Rat(0),
                         labelIds |-> categoryLabelIds(c)]]]

(***************************************************************************)
(* evaluatePair                                                            *)
(***************************************************************************)
\* the pixel loop: confMatrix[groundTruthImgPixel][predictionImgPixel] += 1.
\* A ground truth value outside args.evalLabels is printError; a prediction
\* value that is no index of the matrix raises IndexError (a negative index
\* p >= -(maxId+1) addresses column maxId+1+p).  Pixels before the failing
\* one have been added in place.
IsIndex(p, n) == p >= -(n + 1) /\ p <= n

Column(p, n) == IF p < 0 THEN n + 1 + p ELSE p

RECURSIVE pixelLoop(_, _, _, _, _, _)
pixelLoop(m, gt, pred, k, ids, n) ==
    IF k > Len(gt) THEN [matrix |-> m, err |-> "none", at |-> k]
    ELSE IF gt[k] \notin ids
         THEN [matrix |-> m, err |-> "UnknownLabel", at |-> k]
    ELSE IF ~IsIndex(pred[k], n)
         THEN [matrix |-> m, err |-> "IndexError", at |-> k]
    ELSE pixelLoop([m EXCEPT ![gt[k]][Column(pred[k], n)] = @ + 1],
                   gt, pred, k + 1, ids, n)

\* faulty variant: the loop starts at the second pixel
addToConfusionMatrixSkipFirst(m, gt, pred) ==
    pixelLoop(m, gt, pred, 2, SeqToSet(evalLabels), maxId)

\* faulty variant: the matrix is put back when the loop fails
addToConfusionMatrixRestoring(m, gt, pred) ==
    LET r == pixelLoop(m, gt, pred, 1, SeqToSet(evalLabels), maxId)
    IN  IF r.err = "none" THEN r ELSE [r EXCEPT !.matrix = m]

addToConfusionMatrix(m, gt, pred) ==
    pixelLoop(m, gt, pred, 1, SeqToSet(evalLabels), maxId)

\* faulty variant: the weight is not divided by the instance size
weightedCountsUnnormalized(avg, instSize, tp) ==
    LET fn     == instSize - tp
        weight == Rat(avg)
    IN  [tp |-> tp, fn |-> fn,
         tpWeighted |-> RMul(Rat(tp), weight),
         fnWeighted |-> RMul(Rat(fn), weight)]

\* faulty variant: the weight is the quotient of an integer division
weightedCountsOfIntegerWeight(avg, instSize, tp) ==
    LET fn     == instSize - tp
        weight == Rat(avg \div instSize)
    IN  [tp |-> tp, fn |-> fn,
         tpWeighted |-> RMul(Rat(tp), weight),
         fnWeighted |-> RMul(Rat(fn), weight)]

\* the counts one instance adds: tp, fn and both weighted by avg / instSize
weightedCounts(avg, instSize, tp) ==
    LET fn     == instSize - tp
        weight == RDiv(Rat(avg), Rat(instSize))
    IN  [tp |-> tp, fn |-> fn,
         tpWeighted |-> RMul(Rat(tp), weight),
         fnWeighted |-> RMul(Rat(fn), weight)]

\* faulty variant: the counts of the last instance replace the sums
addCountsOfLastInstance(entry, c) ==
    [entry EXCEPT !.tp = c.tp, !.fn = c.fn,
                  !.tpWeighted = c.tpWeighted,
                  !.fnWeighted = c.fnWeighted]

\* the four += of an entry of instanceStats
addCounts(entry, c) ==
    [entry EXCEPT !.tp = @ + c.tp, !.fn = @ + c.fn,
                  !.tpWeighted = RAdd(@, c.tpWeighted),
                  !.fnWeighted = RAdd(@, c.fnWeighted)]

\* instList = np.unique(instanceNp[instanceNp > 1000])
instList(inst) == SortedSeq({inst[k] : k \in {j \in DOMAIN inst : inst[j] > 1000}})

\* the loop over instList; id2label[labelId], args.avgClassSize[label.name]
\* and instanceStats["classes"][label.name] raise KeyError on a missing key
RECURSIVE addInstances(_, _, _, _)
addInstances(stats, pred, inst, ids) ==
    IF ids = <<>> THEN [stats |-> stats, err |-> "none"]
    ELSE
    LET instId  == Head(ids)
        labelId == instId \div 1000
    IN  IF labelId \notin LabelIds THEN [stats |-> stats, err |-> "KeyError"]
        ELSE
        LET label == id2label[labelId]
        IN  IF label.ignoreInEval THEN addInstances(stats, pred, inst, Tail(ids))
            ELSE IF label.name \notin DOMAIN avgClassSize
                    \/ label.name \notin DOMAIN stats.classes
                 THEN [stats |-> stats, err |-> "KeyError"]
            ELSE
            LET mask     == {k \in DOMAIN inst : inst[k] = instId}
                instSize == Cardinality(mask)
                tp       == Cardinality({k \in mask : pred[k] = labelId})
                avg      == avgClassSize[label.name]
                cls      == [stats.classes EXCEPT
                               ![label.name] = addCounts(@, weightedCounts(avg, instSize, tp))]
                category == label.category
                cats     ==
                    IF category \in DOMAIN stats.categories
                    THEN LET catMask == {k \in DOMAIN pred :
                                            pred[k] \in SeqToSet(stats.categories[category].labelIds)}
                             catTp   == Cardinality(mask \cap catMask)
                         IN  [stats.categories EXCEPT
                                ![category] = addCounts(@, weightedCounts(avg, instSize, catTp))]
                    ELSE stats.categories
            IN  addInstances([classes |-> cls, categories |-> cats],
                             pred, inst, Tail(ids))

\* args.evalInstLevelScore (True in the script)
evalInstLevelScore == TRUE

\* evaluatePair: the accumulators after the call, the error that ended it
\* ("none" when it returned) and the pixel count it returns
evaluatePair(pr, cm, st) ==
    LET fail(e) == [matrix |-> cm, stats |-> st, err |-> e,
                    at |-> 0, nbPixels |-> 0]
    IN  IF ~pr.loadable THEN fail("UnableToLoad")
        ELSE IF pr.predW # pr.gtW THEN fail("WidthMismatch")
        ELSE IF pr.predH # pr.gtH THEN fail("HeightMismatch")
        ELSE IF pr.predChannels # 1 THEN fail("MultipleChannels")
        ELSE
        LET count == pr.predW * pr.predH
            acc      == addToConfusionMatrix(cm, pr.gt, pr.pred)
        IN  IF acc.err # "none"
            THEN [matrix |-> acc.matrix, stats |-> st, err |-> acc.err,
                  at |-> acc.at, nbPixels |-> 0]
            ELSE
            LET ins == IF evalInstLevelScore
                       THEN addInstances(st, pr.pred, pr.inst,
                                         instList(pr.inst))
                       ELSE [stats |-> st, err |-> "none"]
            IN  [matrix |-> acc.matrix, stats |-> ins.stats, err |-> ins.err,
                 at |-> acc.at, nbPixels |-> IF ins.err = "none" THEN count ELSE 0]

(***************************************************************************)
(* Score calculator                                                        *)
(***************************************************************************)
\* faulty variant: the rows of ignored labels are kept
notIgnoredOrIgnored(label) ==
    SelectSeq(evalLabels, LAMBDA l : ~(l = label))

\* faulty variant: the label of interest is kept
notIgnoredWithSelf(label) ==
    SelectSeq(evalLabels, LAMBDA l : ~id2label[l].ignoreInEval)

\* [l for l in args.evalLabels if not id2label[l].ignoreInEval and not l==label]
notIgnored(label) ==
    SelectSeq(evalLabels, LAMBDA l : ~id2label[l].ignoreInEval /\ ~(l = label))

\* tp, gt, fn and fp of getIouScoreForLabel
labelTp(label, cm) == cm[label][label]

labelGt(label, cm) == SubSum(cm, <<label>>, AllCols)

\* faulty variant: the difference is taken the wrong way round
labelFnSwapped(label, cm) == labelTp(label, cm) - labelGt(label, cm)

labelFn(label, cm) == labelGt(label, cm) - labelTp(label, cm)

labelFp(label, cm) == SubSum(cm, notIgnored(label), <<label>>)

\* faulty variant: ignoreInEval is not looked at
iouScoreOfAnyLabel(label, cm) ==
    LET tp    == labelTp(label, cm)
        gt    == labelGt(label, cm)
        fn    == labelFn(label, cm)
        fp    == labelFp(label, cm)
        denom == tp + fp + fn
    IN  IF denom = 0 THEN <<NaN, NaN>>
        ELSE <<RDiv(Rat(tp), Rat(denom)), Rat(gt)>>

getIouScoreForLabel(label, cm) ==
    IF id2label[label].ignoreInEval THEN <<NaN, NaN>>
    ELSE LET tp    == labelTp(label, cm)
             gt    == labelGt(label, cm)
             fn    == labelFn(label, cm)
             fp    == labelFp(label, cm)
             denom == tp + fp + fn
         IN  IF denom = 0 THEN <<NaN, NaN>>
             ELSE <<RDiv(Rat(tp), Rat(denom)), Rat(gt)>>

\* fp of getInstanceIouScoreForLabel ("false postives computed as above")
instLabelFp(label, cm) == SubSum(cm, notIgnored(label), <<label>>)

getInstanceIouScoreForLabel(label, cm, st) ==
    IF id2label[label].ignoreInEval THEN <<NaN, NaN>>
    ELSE LET labelName == id2label[label].name
         IN  IF labelName \notin DOMAIN st.classes THEN <<NaN, NaN>>
             ELSE LET tp    == st.classes[labelName].tpWeighted
                      fn    == st.classes[labelName].fnWeighted
                      gt    == RAdd(tp, fn)
                      fp    == instLabelFp(label, cm)
                      denom == RAdd(RAdd(tp, Rat(fp)), fn)
                  IN  IF RIsZero(denom) THEN <<NaN, NaN>>
                      ELSE <<RDiv(tp, denom), gt>>

\* labelIds of getIouScoreForCategory: the valid labels of the category
validLabelIds(category) ==
    LET kept == SelectSeq(category2labels[category],
                          LAMBDA l : ~l.ignoreInEval /\ l.id \in SeqToSet(evalLabels))
    IN  [k \in DOMAIN kept |-> kept[k].id]

notIgnoredAndNotInCategory(category) ==
    SelectSeq(evalLabels,
              LAMBDA l : ~id2label[l].ignoreInEval /\ id2label[l].category # category)

\* faulty variant: only the diagonal entries of the members are summed
categoryTpDiagonal(category, cm) ==
    SumSeq([k \in DOMAIN validLabelIds(category) |->
               cm[validLabelIds(category)[k]][validLabelIds(category)[k]]])

categoryTp(category, cm) ==
    SubSum(cm, validLabelIds(category), validLabelIds(category))

categoryFn(category, cm) ==
    SubSum(cm, validLabelIds(category), AllCols) - categoryTp(category, cm)

categoryFp(category, cm) ==
    SubSum(cm, notIgnoredAndNotInCategory(category), validLabelIds(category))

getIouScoreForCategory(category, cm) ==
    IF validLabelIds(category) = <<>> THEN <<NaN, NaN>>
    ELSE LET tp    == categoryTp(category, cm)
             fn    == categoryFn(category, cm)
             fp    == categoryFp(category, cm)
             denom == tp + fp + fn
         IN  IF denom = 0 THEN <<NaN, NaN>>
             ELSE <<RDiv(Rat(tp), Rat(denom)), Rat(tp + fn)>>

\* fp of getInstanceIouScoreForCategory: the columns are the labelIds
\* stored in instStats["categories"][category]
instCategoryFp(category, cm, st) ==
    SubSum(cm, notIgnoredAndNotInCategory(category),
           st.categories[category].labelIds)

getInstanceIouScoreForCategory(category, cm, st) ==
    IF category \notin DOMAIN st.categories THEN <<NaN, NaN>>
    ELSE LET tp    == st.categories[category].tpWeighted
             fn    == st.categories[category].fnWeighted
             fp    == instCategoryFp(category, cm, st)
             denom == RAdd(RAdd(tp, Rat(fp)), fn)
         IN  IF RIsZero(denom) THEN <<NaN, NaN>>
             ELSE <<RDiv(tp, denom), RAdd(tp, fn)>>

\* getPrior: float(confMatrix[label,:].sum()) / confMatrix.sum(); a zero
\* total gives nan (a numpy division)
getPrior(label, cm) ==
    IF MatrixSum(cm) = 0 THEN NaN
    ELSE RDiv(Rat(labelGt(label, cm)), Rat(MatrixSum(cm)))

\* the loop of getScoreAverage over the entries of scoreList
RECURSIVE scoreLoop(_, _, _)
scoreLoop(scoreList, keys, acc) ==
    IF keys = {} THEN acc
    ELSE LET score == CHOOSE k \in keys : TRUE
             entry == scoreList[score]
             next  == IF ~isnan(entry[1])
                      THEN [validScores |-> acc.validScores + 1,
                            scoreSum    |-> RAdd(acc.scoreSum, entry[1])]
                      ELSE acc
         IN  scoreLoop(scoreList, keys \ {score}, next)

\* faulty variant: the sum is divided by the number of all entries
scoreAverageOverAll(scoreList) ==
    LET acc == scoreLoop(scoreList, DOMAIN scoreList,
                         [validScores |-> 0, scoreSum |-> Rat(0)])
    IN  IF acc.validScores = 0 THEN NaN
        ELSE RDiv(acc.scoreSum, Rat(Cardinality(DOMAIN scoreList)))

getScoreAverage(scoreList) ==
    LET acc == scoreLoop(scoreList, DOMAIN scoreList,
                         [validScores |-> 0, scoreSum |-> Rat(0)])
    IN  IF acc.validScores = 0 THEN NaN
        ELSE RDiv(acc.scoreSum, Rat(acc.validScores))

\* the loop of getFreqScoreAverage: validScores sums the weights
RECURSIVE freqLoop(_, _, _)
freqLoop(scoreList, keys, acc) ==
    IF keys = {} THEN acc
    ELSE LET score == CHOOSE k \in keys : TRUE
             entry == scoreList[score]
             next  == IF ~isnan(entry[1])
                      THEN [validScores |-> RAdd(acc.validScores, entry[2]),
                            scoreSum    |-> RAdd(acc.scoreSum, RMul(entry[1], entry[2]))]
                      ELSE acc
         IN  freqLoop(scoreList, keys \ {score}, next)

getFreqScoreAverage(scoreList) ==
    LET acc == freqLoop(scoreList, DOMAIN scoreList,
                        [validScores |-> Rat(0), scoreSum |-> Rat(0)])
    IN  IF RIsZero(acc.validScores) THEN NaN
        ELSE RDiv(acc.scoreSum, acc.validScores)

\* the names of the labels of args.evalLabels, the keys of the class scores
evalLabelNames == {id2label[evalLabels[k]].name : k \in DOMAIN evalLabels}

labelOfName(n) == CHOOSE l \in SeqToSet(evalLabels) : id2label[l].name = n

classScores(cm) ==
    [n \in evalLabelNames |-> getIouScoreForLabel(labelOfName(n), cm)]

classInstScores(cm, st) ==
    [n \in evalLabelNames |->
        getInstanceIouScoreForLabel(labelOfName(n), cm, st)]

categoryScores(cm) ==
    [c \in Categories |-> getIouScoreForCategory(c, cm)]

categoryInstScores(cm, st) ==
    [c \in Categories |-> getInstanceIouScoreForCategory(c, cm, st)]

\* createResultDict, with the four weighted averages evaluateImgLists prints
createResultDict(cm, st) ==
    LET classScoreList        == classScores(cm)
        classInstScoreList    == classInstScores(cm, st)
        categoryScoreList     == categoryScores(cm)
        categoryInstScoreList == categoryInstScores(cm, st)
    IN  [confMatrix                 |-> cm,
         classScores                |-> classScoreList,
         classInstScores            |-> classInstScoreList,
         categoryScores             |-> categoryScoreList,
         categoryInstScores         |-> categoryInstScoreList,
         averageScoreClasses        |-> getScoreAverage(classScoreList),
         averageScoreInstClasses    |-> getScoreAverage(classInstScoreList),
         averageScoreCategories     |-> getScoreAverage(categoryScoreList),
         averageScoreInstCategories |-> getScoreAverage(categoryInstScoreList),
         freqScoreClasses           |-> getFreqScoreAverage(classScoreList),
         freqScoreInstClasses       |-> getFreqScoreAverage(classInstScoreList),
         freqScoreCategories        |-> getFreqScoreAverage(categoryScoreList),
         freqScoreInstCategories    |-> getFreqScoreAverage(categoryInstScoreList)]

(***************************************************************************)
(* Mismatch ranker: the lookups and divisions that can end the run.        *)
(***************************************************************************)
\* np.argsort(confMatrix[label, :])[::-1]: the columns by descending count;
\* for a row this short the sort is an insertion sort, so that equal counts
\* come out by descending column
\* the columns c, c - 1, ..., 0 that hold the count v in the row
RECURSIVE columnsWithCount(_, _, _, _)
columnsWithCount(cm, label, v, c) ==
    IF c < 0 THEN <<>>
    ELSE (IF cm[label][c] = v THEN <<c>> ELSE <<>>)
             \o columnsWithCount(cm, label, v, c - 1)

\* the columns with the counts v, v - 1, ..., 0 of the row, in this order
RECURSIVE rankedColumnsOf(_, _, _)
rankedColumnsOf(cm, label, v) ==
    IF v < 0 THEN <<>>
    ELSE columnsWithCount(cm, label, v, maxId) \o rankedColumnsOf(cm, label, v - 1)

\* no count of the row is above the sum of the row
rankedColumns(cm, label) ==
    rankedColumnsOf(cm, label, RowSum(cm[label], AllCols, maxId + 1))

\* if(ct == 5) : break
pixelErrorBreak == 5

\* the columns evaluatePixelError reports for a label: the label itself is
\* skipped; ct is raised before it is compared, so that the loop ends at the
\* column that makes it 5
reportedConfusions(cm, label) ==
    LET others == SelectSeq(rankedColumns(cm, label), LAMBDA c : c # label)
        last   == pixelErrorBreak - 1
    IN  SubSeq(others, 1, IF Len(others) < last THEN Len(others) ELSE last)

\* allNonEdgeTruePositives, passed as totalPixelCt to both reports
allNonEdgeTruePositives(cm) ==
    SumSeq([k \in DOMAIN evalLabels |->
               IF evalLabels[k] < 4 THEN 0
               ELSE cm[evalLabels[k]][evalLabels[k]]])

\* the columns evaluatePixelError looks up in id2label, in report order
RECURSIVE pixelErrorLookups(_, _)
pixelErrorLookups(cm, ls) ==
    IF ls = <<>> THEN <<>>
    ELSE LET label == Head(ls)
             here  == IF label < 4 \/ labelGt(label, cm) <= 0 THEN <<>>
                      ELSE reportedConfusions(cm, label)
         IN  here \o pixelErrorLookups(cm, Tail(ls))

\* the cells evaluateTrueVsOtherPixError can report
trueVsOtherCells ==
    {cell \in (0..maxId) \X (0..maxId) :
        ~(cell[1] = cell[2] \/ cell[1] < 4 \/ cell[2] < 4)}

\* the largest count of an eligible cell
largestCount(cm) ==
    LET counts == {cm[cell[1]][cell[2]] : cell \in trueVsOtherCells}
    IN  CHOOSE v \in counts : \A w \in counts : w <= v

\* sorted2dArray without the cells the loop skips: the cells by descending
\* count.  np.argsort leaves the order of equal counts to the sort; here
\* they come by descending position.
RECURSIVE cellsOfRow(_, _, _, _)
cellsOfRow(cm, v, r, c) ==
    IF c < 0 THEN <<>>
    ELSE (IF <<r, c>> \in trueVsOtherCells /\ cm[r][c] = v THEN << <<r, c>> >> ELSE <<>>)
             \o cellsOfRow(cm, v, r, c - 1)

RECURSIVE cellsOfRows(_, _, _)
cellsOfRows(cm, v, r) ==
    IF r < 0 THEN <<>>
    ELSE cellsOfRow(cm, v, r, maxId) \o cellsOfRows(cm, v, r - 1)

RECURSIVE cellsByCount(_, _)
cellsByCount(cm, v) ==
    IF v < 0 THEN <<>>
    ELSE cellsOfRows(cm, v, maxId) \o cellsByCount(cm, v - 1)

rankedCells(cm) == cellsByCount(cm, largestCount(cm))

\* if(ct == 90) : break
trueVsOtherBreak == 90

\* the cells evaluateTrueVsOtherPixError reports: ct is raised before it
\* is compared, so that the loop ends at the cell that makes it 90
trueVsOtherReport(cm) ==
    LET ranked == rankedCells(cm)
        last   == trueVsOtherBreak - 1
    IN  SubSeq(ranked, 1, IF Len(ranked) < last THEN Len(ranked) ELSE last)

\* (float(count) * 100) / totalPixelCt, the second value evaluatePixelError
\* prints for a column and the value evaluateTrueVsOtherPixError prints for a
\* cell; totalPixelCt is allNonEdgeTruePositives.  nan stands for a division
\* by zero.
overallPixelError(cm, label, eleIdx) ==
    Norm(<<cm[label][eleIdx] * 100, allNonEdgeTruePositives(cm)>>)

pixErrorPercentage(cm, cell) ==
    Norm(<<cm[cell[1]][cell[2]] * 100, allNonEdgeTruePositives(cm)>>)

\* The ways evaluatePixelAccuracy can end: "none", or the exception that
\* ends the run.  id2label[eleIdx] raises KeyError for an id that is no
\* label.  Dividing a float by a zero totalPixelCt raises ZeroDivisionError
\* or yields inf/nan, depending on the type numpy gives the count: both
\* outcomes are kept.
reportOutcomes(cm) ==
    LET lookups  == pixelErrorLookups(cm, evalLabels)
        keyError == \/ \E k \in DOMAIN lookups : lookups[k] \notin LabelIds
                    \/ \E cell \in SeqToSet(trueVsOtherReport(cm)) :
                          cell[1] \notin LabelIds \/ cell[2] \notin LabelIds
        quiet    == IF keyError THEN "KeyError" ELSE "none"
        raising  == IF lookups # <<>> /\ Head(lookups) \notin LabelIds
                    THEN "KeyError" ELSE "ZeroDivisionError"
    IN  IF allNonEdgeTruePositives(cm) = 0
        THEN {quiet, raising}
        ELSE {quiet}

(***************************************************************************)
(* Inputs: the image pairs of a run.                                       *)
(***************************************************************************)
\* a pixel of a pair: <<ground truth id, predicted id, instance id>>.
\* The images of a run are made of the pixels of one of these sets.
SemanticPixels ==
    { <<7, 7, 7>>, <<7, 8, 7>>, <<8, 8, 8>>, <<7, 11, 7>>, <<0, 7, 0>> }

\* an unknown ground truth id (3), predictions that are no label (2, 14)
OutOfTaxonomyPixels ==
    { <<7, 7, 7>>, <<7, 8, 7>>, <<3, 7, 3>>, <<7, 2, 7>>, <<7, 14, 7>> }

\* a car (10001), a second car (10002), a caravan, which is ignored
VehiclePixels ==
    { <<7, 7, 7>>, <<7, 10, 7>>, <<10, 10, 10001>>, <<10, 11, 10002>>,
      <<11, 10, 11001>> }

\* two cars, each with a pixel predicted as car and one predicted as road
InstancePixels ==
    { <<10, 10, 10001>>, <<10, 7, 10001>>, <<10, 10, 10002>>, <<10, 7, 10002>>,
      <<9, 9, 9001>> }

\* a bicycle, whose category is not tracked, and an instance id of no label
ObjectPixels ==
    { <<6, 6, 6001>>, <<6, 5, 6001>>, <<5, 6, 5>>, <<0, 10, 0>>, <<7, 7, 3001>> }

Alphabets ==
    {SemanticPixels, OutOfTaxonomyPixels, VehiclePixels, InstancePixels, ObjectPixels}

Shapes(n) == {wh \in (1..n) \X (1..n) : wh[1] * wh[2] = n /\ wh[1] >= wh[2]}

Pair(w, h, px) ==
    [loadable |-> TRUE, predW |-> w, predH |-> h, gtW |-> w, gtH |-> h,
     predChannels |-> 1,
     gt   |-> [k \in DOMAIN px |-> px[k][1]],
     pred |-> [k \in DOMAIN px |-> px[k][2]],
     inst |-> [k \in DOMAIN px |-> px[k][3]]]

NoPair == Pair(0, 0, <<>>)

\* pairs that fail before any pixel is read
BadPairs ==
    { [NoPair EXCEPT !.loadable = FALSE],
      [NoPair EXCEPT !.predW = 2, !.predH = 1, !.gtW = 1, !.gtH = 1],
      [NoPair EXCEPT !.predW = 1, !.predH = 2, !.gtW = 1, !.gtH = 1],
      [NoPair EXCEPT !.predW = 1, !.predH = 1, !.gtW = 1, !.gtH = 1,
                     !.predChannels = 3] }

(***************************************************************************)
(* evaluateImgLists as a state machine.                                    *)
(***************************************************************************)
\* printError (csHelpers): the message is printed and the process exits
printError == "aborted"

\* an exception nothing catches ends the process as well
uncaught == "aborted"

\* the errors that are exceptions; the others are calls of printError
Exceptions == {"IndexError", "KeyError", "ZeroDivisionError"}

vars == <<pc, alphabet, lenPred, lenGt, i, confMatrix, instStats, nbPixels,
          pair, err, failAt, results>>

Init ==
    /\ pc = "start"
    /\ alphabet \in Alphabets
    /\ lenPred \in 0..MaxPairs
    /\ lenGt \in 0..MaxPairs
    /\ i = 0
    /\ confMatrix = generateMatrix
    /\ instStats = generateInstanceStats
    /\ nbPixels = 0
    /\ pair = NoPair
    /\ err = "none"
    /\ failAt = 0
    /\ results = <<>>

\* lines 564-569: the lists must be of equal size
CheckLists ==
    /\ pc = "start"
    /\ IF lenPred # lenGt
       THEN pc' = printError /\ err' = "ListSizeMismatch"
       ELSE pc' = "loop" /\ err' = err
    /\ UNCHANGED <<alphabet, lenPred, lenGt, i, confMatrix, instStats, nbPixels,
                   pair, failAt, results>>

\* faulty variant: a failing pair does not end the run
EvaluateWithoutAbort(p) ==
    LET r == evaluatePair(p, confMatrix, instStats)
    IN  /\ pair' = p
        /\ confMatrix' = r.matrix
        /\ instStats' = r.stats
        /\ failAt' = IF r.err = "none" THEN 0 ELSE r.at
        /\ nbPixels' = nbPixels + r.nbPixels
        /\ err' = IF r.err # "none" THEN r.err ELSE err
        /\ pc' = pc
        /\ i' = i + 1

\* lines 575-587: one iteration of the loop over the pairs, called with pair p
EvaluateWith(p) ==
    LET r     == evaluatePair(p, confMatrix, instStats)
        total == nbPixels + r.nbPixels
    IN  /\ pair' = p
        /\ confMatrix' = r.matrix
        /\ instStats' = r.stats
        /\ failAt' = IF r.err = "none" THEN 0 ELSE r.at
        /\ IF r.err # "none"
           THEN /\ pc' = IF r.err \in Exceptions THEN uncaught ELSE printError
                /\ err' = r.err
                /\ UNCHANGED <<nbPixels, i>>
           ELSE /\ nbPixels' = total
                /\ IF MatrixSum(r.matrix) # total
                   THEN pc' = printError /\ err' = "ConsistencyCheck" /\ i' = i
                   ELSE pc' = pc /\ err' = err /\ i' = i + 1

\* the pixels the next image may hold: every later pair needs one as well
PixelsLeft == MaxTotalPixels - nbPixels - (lenPred - i - 1)

EvaluateNextPair ==
    /\ pc = "loop"
    /\ i < lenPred
    /\ \/ \E p \in BadPairs : EvaluateWith(p)
       \/ \E len \in 1..PixelsLeft : \E wh \in Shapes(len) :
             \E px \in [1..len -> alphabet] : EvaluateWith(Pair(wh[1], wh[2], px))
    /\ UNCHANGED <<alphabet, lenPred, lenGt, results>>

\* lines 588-589: the loop over the pairs is left
EndLoop ==
    /\ pc = "loop"
    /\ i = lenPred
    /\ pc' = "report"
    /\ pair' = NoPair
    /\ UNCHANGED <<alphabet, lenPred, lenGt, i, confMatrix, instStats, nbPixels,
                   err, failAt, results>>

\* lines 594-601: the final sanity check, the confusion matrix print and
\* evaluatePixelAccuracy with its two mismatch reports
Report ==
    /\ pc = "report"
    /\ IF MatrixSum(confMatrix) # nbPixels
       THEN pc' = printError /\ err' = "ConsistencyCheck"
       ELSE \E out \in reportOutcomes(confMatrix) :
               IF out = "none"
               THEN pc' = "score" /\ err' = err
               ELSE pc' = uncaught /\ err' = out
    /\ UNCHANGED <<alphabet, lenPred, lenGt, i, confMatrix, instStats, nbPixels,
                   pair, failAt, results>>

\* lines 604-662: the scores, their averages and the result dictionary
Score ==
    /\ pc = "score"
    /\ results' = <<createResultDict(confMatrix, instStats)>>
    /\ pc' = "done"
    /\ UNCHANGED <<alphabet, lenPred, lenGt, i, confMatrix, instStats, nbPixels,
                   pair, err, failAt>>

Next == CheckLists \/ EvaluateNextPair \/ EndLoop \/ Report \/ Score

Spec == Init /\ [][Next]_vars


(***************************************************************************)
(* Properties.                                                             *)
(***************************************************************************)
\* the sum of f over a finite subset S of its domain
RECURSIVE SumOver(_, _)
SumOver(f, S) ==
    IF S = {} THEN 0
    ELSE LET x == CHOOSE y \in S : TRUE
         IN  f[x] + SumOver(f, S \ {x})

\* the ids of the labels that take part in the evaluation and are not ignored
ScoredIds == {l \in SeqToSet(evalLabels) : ~id2label[l].ignoreInEval}

\* the number of pixels below position n of pair pr that have ground truth
\* r and fall into column c
PixelsInCell(pr, n, r, c) ==
    Cardinality({k \in 1..(n - 1) : pr.gt[k] = r /\ Column(pr.pred[k], maxId) = c})

\* a step that accumulates one more pair and returns
PairAccumulated == pc = "loop" /\ pc' = "loop" /\ i' = i + 1

\* C1 (matrix conservation): whenever the loop over the pairs is running or
\* has been left without an error, the sum of all entries of the confusion
\* matrix equals the running sum of width*height of the pairs processed so
\* far, and no run ends in the consistency check.
MatrixConservation ==
    /\ pc \in {"loop", "report", "score", "done"} => MatrixSum(confMatrix) = nbPixels
    /\ err # "ConsistencyCheck"

\* two pairs of two pixels each were accumulated and the run went on to the end
MatrixConservationWitness ==
    /\ pc = "done"
    /\ i = 2
    /\ nbPixels = 4
    /\ MatrixSum(confMatrix) = 4

WellFormed(pr) ==
    /\ pr.loadable
    /\ pr.predW = pr.gtW
    /\ pr.predH = pr.gtH
    /\ pr.predChannels = 1
    /\ \A k \in DOMAIN pr.gt : pr.gt[k] \in SeqToSet(evalLabels)

\* C3 as stated (out-of-taxonomy predictions): a pair whose ground truth
\* values are all known is accumulated whatever its prediction values are,
\* and every pixel is counted once in the row of its ground truth label.
AnyPredictionIsCounted ==
    [][(pc = "loop" /\ i < lenPred /\ WellFormed(pair')) =>
          /\ err' \notin {"UnknownLabel", "IndexError"}
          /\ \A r \in 0..maxId :
                SumOver(confMatrix'[r], 0..maxId)
                    = SumOver(confMatrix[r], 0..maxId)
                      + Cardinality({k \in DOMAIN pair'.gt : pair'.gt[k] = r})]_vars

\* the run ended at a pixel whose prediction is greater than the largest id
PredictionAboveMaxIdWitness ==
    /\ err = "IndexError"
    /\ pair.gt[failAt] \in SeqToSet(evalLabels)
    /\ pair.pred[failAt] > maxId

\* a score that is nan or lies in [0, 1]
InUnitInterval(score) ==
    isnan(score) \/ (RLeq(Rat(0), score) /\ RLeq(score, Rat(1)))

\* C4 (IoU bounds): for the accumulators all pairs of a run leave, every
\* score of the four score functions that is not nan lies in [0, 1].
IouBounds ==
    pc = "report" =>
        /\ \A l \in SeqToSet(evalLabels) :
              /\ InUnitInterval(getIouScoreForLabel(l, confMatrix)[1])
              /\ InUnitInterval(getInstanceIouScoreForLabel(l, confMatrix, instStats)[1])
        /\ \A c \in Categories :
              /\ InUnitInterval(getIouScoreForCategory(c, confMatrix)[1])
              /\ InUnitInterval(getInstanceIouScoreForCategory(c, confMatrix, instStats)[1])

\* scores strictly between 0 and 1: a label and its category, pixel-level
\* and instance-level
IouBoundsWitness ==
    /\ pc = "report"
    /\ \A score \in { getIouScoreForLabel(10, confMatrix)[1],
                      getInstanceIouScoreForLabel(10, confMatrix, instStats)[1],
                      getIouScoreForCategory("vehicle", confMatrix)[1],
                      getInstanceIouScoreForCategory("vehicle", confMatrix, instStats)[1] } :
          ~isnan(score) /\ ~RLeq(score, Rat(0)) /\ ~RLeq(Rat(1), score)

\* the sum of the per-label true positives of the valid labels of a category
MemberTpSum(category, cm) ==
    SumOver([l \in SeqToSet(validLabelIds(category)) |-> labelTp(l, cm)],
            SeqToSet(validLabelIds(category)))

\* the pixels of a label of the category predicted as another of its labels
WithinCategoryConfusions(category, cm) ==
    LET ids   == SeqToSet(validLabelIds(category))
        cells == {cell \in ids \X ids : cell[1] # cell[2]}
    IN  SumOver([cell \in cells |-> cm[cell[1]][cell[2]]], cells)

\* C5 as stated (category decomposition): the true positives of a category
\* equal the sum of the true positives of its non-ignored member labels.
CategoryTpIsSumOfLabelTps ==
    pc = "report" =>
        \A c \in Categories : categoryTp(c, confMatrix) = MemberTpSum(c, confMatrix)

\* C5, amended: the true positives of a category are the true positives of
\* its non-ignored member labels plus the pixels of one member label that
\* are predicted as another member label of the category.
CategoryTpCountsWithinCategoryConfusions ==
    pc = "report" =>
        \A c \in Categories :
            categoryTp(c, confMatrix)
                = MemberTpSum(c, confMatrix) + WithinCategoryConfusions(c, confMatrix)

\* road was predicted as road and as sidewalk, which is in its category
CategoryTpWitness ==
    /\ pc = "report"
    /\ confMatrix[7][7] > 0
    /\ confMatrix[7][8] > 0
    /\ categoryTp("flat", confMatrix) > MemberTpSum("flat", confMatrix)

\* the keys of a score collection whose score is not nan
ValidKeys(scoreList) == {k \in DOMAIN scoreList : ~isnan(scoreList[k][1])}

\* at least one score is not nan and all such scores are equal
AllScoresEqual(scoreList) ==
    /\ ValidKeys(scoreList) # {}
    /\ \A k \in ValidKeys(scoreList) : \A j \in ValidKeys(scoreList) :
          scoreList[k][1] = scoreList[j][1]

TheScore(scoreList) == scoreList[CHOOSE k \in ValidKeys(scoreList) : TRUE][1]

\* the weights of the entries whose score is not nan are all zero
NoWeight(scoreList) == \A k \in ValidKeys(scoreList) : RIsZero(scoreList[k][2])

\* score collections over three keys, with entries of weight zero
SampleEntries ==
    { <<NaN, NaN>>, <<NaN, Rat(1)>>, <<Rat(0), Rat(0)>>, <<Rat(0), Rat(2)>>,
      <<<<1, 2>>, Rat(0)>>, <<<<1, 2>>, Rat(1)>>, <<<<1, 2>>, Rat(3)>>,
      <<Rat(1), Rat(1)>> }

SampleScoreLists == [{"a", "b", "c"} -> SampleEntries]

\* the score collections of a result with their two averages
Averaged(res) ==
    { <<res.classScores, res.averageScoreClasses, res.freqScoreClasses>>,
      <<res.classInstScores, res.averageScoreInstClasses, res.freqScoreInstClasses>>,
      <<res.categoryScores, res.averageScoreCategories, res.freqScoreCategories>>,
      <<res.categoryInstScores, res.averageScoreInstCategories,
        res.freqScoreInstCategories>> }

\* C6 as stated (weighted-average sanity): when the scores of a collection
\* of the result that are not nan all equal v, both averages are v.
EqualScoresGiveBothAverages ==
    pc = "done" =>
        \A a \in Averaged(results[1]) :
            AllScoresEqual(a[1]) => a[2] = TheScore(a[1]) /\ a[3] = TheScore(a[1])

EqualScoresOfSamples ==
    \A sl \in SampleScoreLists :
        AllScoresEqual(sl) =>
            /\ getScoreAverage(sl) = TheScore(sl)
            /\ getFreqScoreAverage(sl) = IF NoWeight(sl) THEN NaN ELSE TheScore(sl)

\* C6, amended: when the scores that are not nan all equal v, the plain
\* average is v; the frequency weighted average is v when one of these
\* entries has a weight other than zero, and nan when all their weights are
\* zero.  This holds for the collections of every result and for the sample
\* collections.
EqualScoresGiveAverage ==
    /\ EqualScoresOfSamples
    /\ pc = "done" =>
          \A a \in Averaged(results[1]) :
              AllScoresEqual(a[1]) =>
                  /\ a[2] = TheScore(a[1])
                  /\ a[3] = IF NoWeight(a[1]) THEN NaN ELSE TheScore(a[1])

\* car is predicted but has no ground truth instance: its instance-level
\* score is the only one that is not nan, and its weight is zero
ZeroWeightWitness ==
    /\ pc = "done"
    /\ confMatrix[7][7] > 0
    /\ results[1].classInstScores["car"] = <<Rat(0), Rat(0)>>
    /\ ValidKeys(results[1].classInstScores) = {"car"}
    /\ results[1].averageScoreInstClasses = Rat(0)
    /\ isnan(results[1].freqScoreInstClasses)

\* a score collection without its entries whose score is nan
WithoutNaN(scoreList) == [k \in ValidKeys(scoreList) |-> scoreList[k]]

SameAveragesWithoutNaN(scoreList) ==
    /\ getScoreAverage(scoreList) = getScoreAverage(WithoutNaN(scoreList))
    /\ getFreqScoreAverage(scoreList) = getFreqScoreAverage(WithoutNaN(scoreList))

IgnoredIds == {l \in SeqToSet(evalLabels) : id2label[l].ignoreInEval}

AveragesOfSamplesWithoutNaN ==
    \A sl \in SampleScoreLists : SameAveragesWithoutNaN(sl)

\* C7 (ignored labels): for every label with ignoreInEval the pixel-level
\* and the instance-level score are (nan, nan) whatever the accumulators
\* hold, and the two averages of a score collection are those of the
\* collection without its nan entries.
IgnoredLabelsNeverContribute ==
    /\ AveragesOfSamplesWithoutNaN
    /\ pc = "report" =>
          /\ \A l \in IgnoredIds :
                /\ getIouScoreForLabel(l, confMatrix) = <<NaN, NaN>>
                /\ getInstanceIouScoreForLabel(l, confMatrix, instStats) = <<NaN, NaN>>
          /\ SameAveragesWithoutNaN(classScores(confMatrix))
          /\ SameAveragesWithoutNaN(classInstScores(confMatrix, instStats))
          /\ SameAveragesWithoutNaN(categoryScores(confMatrix))
          /\ SameAveragesWithoutNaN(categoryInstScores(confMatrix, instStats))

\* pixels of the ignored labels unlabeled and caravan have been accumulated,
\* as ground truth and as prediction
IgnoredLabelsWitness ==
    /\ pc = "report"
    /\ \/ confMatrix[0][10] > 0 /\ confMatrix[6][6] > 0
       \/ confMatrix[11][10] > 0 /\ confMatrix[10][11] > 0

\* the score of label L written out from the entries of the matrix
IouByDefinition(L, cm) ==
    LET tp == cm[L][L]
        gt == SumOver(cm[L], 0..maxId)
        fn == gt - tp
        fp == SumOver([r \in 0..maxId |-> cm[r][L]], ScoredIds \ {L})
    IN  IF tp + fp + fn = 0 THEN <<NaN, NaN>>
        ELSE <<RDiv(Rat(tp), Rat(tp + fp + fn)), Rat(gt)>>

\* the only pair so far: ground truth [[7,7],[8,8]], prediction [[7,8],[8,8]]
SingleMisclassification ==
    /\ pc = "loop"
    /\ i = 1
    /\ nbPixels = 4
    /\ pair.predW = 2
    /\ pair.predH = 2
    /\ pair.gt = <<7, 7, 8, 8>>
    /\ pair.pred = <<7, 8, 8, 8>>

\* C8 (per-label IoU): for every label that is not ignored the score is
\* (nan, nan) when tp + fp + fn = 0 and (tp / (tp + fp + fn), gt) otherwise,
\* with tp the diagonal entry, gt the row sum, fn = gt - tp and fp the sum of
\* the column over the other rows that are not ignored; the pair with
\* ground truth [[7,7],[8,8]] and prediction [[7,8],[8,8]] gives the entries
\* 1, 1 and 2 and the scores 1/2 and 2/3.
PerLabelIou ==
    /\ pc \in {"loop", "report"} =>
          \A L \in ScoredIds :
              getIouScoreForLabel(L, confMatrix) = IouByDefinition(L, confMatrix)
    /\ SingleMisclassification =>
          /\ confMatrix[7][7] = 1
          /\ confMatrix[7][8] = 1
          /\ confMatrix[8][8] = 2
          /\ MatrixSum(confMatrix) = 4
          /\ getIouScoreForLabel(7, confMatrix)[1] = <<1, 2>>
          /\ getIouScoreForLabel(8, confMatrix)[1] = <<2, 3>>

PerLabelIouWitness ==
    /\ SingleMisclassification
    /\ getIouScoreForLabel(8, confMatrix) = <<<<2, 3>>, Rat(2)>>

\* the pixels of instance instId in pair pr, and those predicted as its label
InstPixels(pr, instId) == {k \in DOMAIN pr.inst : pr.inst[k] = instId}

InstHits(pr, instId) ==
    {k \in InstPixels(pr, instId) : pr.pred[k] = instId \div 1000}

\* the sum, over the instances ids of pair pr, of the fraction of the pixels
\* of the instance that are predicted as its label (hit) or as something else
RECURSIVE FractionSum(_, _, _)
FractionSum(pr, ids, hit) ==
    IF ids = {} THEN Rat(0)
    ELSE LET instId == CHOOSE x \in ids : TRUE
             size   == Cardinality(InstPixels(pr, instId))
             hits   == Cardinality(InstHits(pr, instId))
             part   == IF hit THEN hits ELSE size - hits
         IN  RAdd(RDiv(Rat(part), Rat(size)), FractionSum(pr, ids \ {instId}, hit))

CarInstances(pr) == {pr.inst[k] : k \in {j \in DOMAIN pr.inst : pr.inst[j] \div 1000 = 10}}

\* instances of the same class with the same fraction of pixels predicted as
\* the class add the same weighted counts
SameFractionSameCounts ==
    \A avg \in {1, 12, 500} :
        \A s1 \in 1..MaxInstSize : \A s2 \in 1..MaxInstSize :
            \A tp1 \in 0..s1 : \A tp2 \in 0..s2 :
                tp1 * s2 = tp2 * s1 =>
                    /\ weightedCounts(avg, s1, tp1).tpWeighted
                           = weightedCounts(avg, s2, tp2).tpWeighted
                    /\ weightedCounts(avg, s1, tp1).fnWeighted
                           = weightedCounts(avg, s2, tp2).fnWeighted

\* sizes 100 and 1000 with a tenth of the pixels missed, average size 500
SizeExample ==
    /\ weightedCounts(500, 100, 90).tpWeighted = Rat(450)
    /\ weightedCounts(500, 100, 90).fnWeighted = Rat(50)
    /\ weightedCounts(500, 1000, 900).tpWeighted = Rat(450)
    /\ weightedCounts(500, 1000, 900).fnWeighted = Rat(50)

RunOrderingAndAbort ==
    [][/\ pc' \in {"report", "score", "done"} =>
            err' = "none" /\ i' = lenPred' /\ lenPred' = lenGt'
       /\ results' # <<>> => pc' = "done" /\ err' = "none"
       /\ results' # results => pc = "score" /\ i = lenPred /\ err = "none"
       /\ err' = "ZeroDivisionError" => i' = lenPred'
       /\ (pc' = "aborted") = (err' # "none")
       /\ err # "none" =>
            UNCHANGED <<confMatrix, instStats, nbPixels, i, results>>]_vars

\* the first pair was accumulated, the second has another height than its
\* ground truth: the run is over without a result
AbortWitness ==
    /\ pc = "aborted"
    /\ err = "HeightMismatch"
    /\ lenPred = 2
    /\ i = 1
    /\ nbPixels > 0
    /\ results = <<>>

\* the matrix with one more pixel in cell (r, c)
OneMore(cm, r, c) == [cm EXCEPT ![r][c] = @ + 1]

\* the matrix with the rows of the ignored labels emptied, or with one more
\* pixel in every cell of these rows
IgnoredRowsEmptied(cm) ==
    [r \in 0..maxId |-> IF r \in IgnoredIds THEN [c \in 0..maxId |-> 0] ELSE cm[r]]

IgnoredRowsRaised(cm) ==
    [r \in 0..maxId |-> IF r \in IgnoredIds THEN [c \in 0..maxId |-> cm[r][c] + 1]
                        ELSE cm[r]]

SameLabelScores(L, cm, other) ==
    /\ getIouScoreForLabel(L, other) = getIouScoreForLabel(L, cm)
    /\ getInstanceIouScoreForLabel(L, other, instStats)
           = getInstanceIouScoreForLabel(L, cm, instStats)

\* C11 (false positives come from rows that are not ignored): for every
\* label L that is not ignored the false positives of the pixel-level and
\* of the instance-level score are the same number, the sum of column L over
\* the other rows that are not ignored, and both scores of L stay as they
\* are when the rows of the ignored labels are emptied, raised, or get one
\* more pixel predicted as L.
FalsePositivesFromScoredRows ==
    pc = "report" =>
        \A L \in ScoredIds :
            /\ labelFp(L, confMatrix)
                   = SumOver([r \in 0..maxId |-> confMatrix[r][L]], ScoredIds \ {L})
            /\ instLabelFp(L, confMatrix) = labelFp(L, confMatrix)
            /\ SameLabelScores(L, confMatrix, IgnoredRowsEmptied(confMatrix))
            /\ SameLabelScores(L, confMatrix, IgnoredRowsRaised(confMatrix))
            /\ \A r \in IgnoredIds : SameLabelScores(L, confMatrix, OneMore(confMatrix, r, L))

\* a caravan, which is ignored, was predicted as car: both scores of car
\* are 1 all the same
FalsePositivesWitness ==
    /\ pc = "report"
    /\ confMatrix[11][10] > 0
    /\ confMatrix[10][10] > 0
    /\ getIouScoreForLabel(10, confMatrix)[1] = Rat(1)
    /\ getInstanceIouScoreForLabel(10, confMatrix, instStats)[1] = Rat(1)

\* the rows of the label table that belong to category c
MemberRows(c) == {k \in DOMAIN labels : labels[k].category = c}

\* the categories whose every member has instances and an id >= 0
CategoriesOfInstancesOnly ==
    {c \in Categories : \A k \in MemberRows(c) : labels[k].hasInstances /\ labels[k].id >= 0}

\* the categories whose every member with an id >= 0 has instances
CategoriesOfInstancesButNegativeIds ==
    {c \in Categories : \A k \in MemberRows(c) : labels[k].id >= 0 => labels[k].hasInstances}

\* the ids >= 0 of the members of c are the entries of ids, in table order
IsMemberIdsInTableOrder(ids, c) ==
    /\ SeqToSet(ids) = {labels[k].id : k \in {j \in MemberRows(c) : labels[j].id >= 0}}
    /\ \A a, b \in DOMAIN ids :
           a < b => \E ka, kb \in MemberRows(c) :
                        /\ ka < kb
                        /\ labels[ka].id = ids[a]
                        /\ labels[kb].id = ids[b]

\* C12 as stated: the tracked categories are those whose every member has
\* instances and an id >= 0.
TrackedCategoriesHaveNoNegativeId ==
    DOMAIN instStats.categories = CategoriesOfInstancesOnly

\* C12 (tracked categories, amended): at every moment of a run the tracked
\* categories are exactly those whose every member with an id >= 0 has
\* instances; members with a negative id are skipped, and labelIds lists the
\* ids >= 0 of the members in table order.
TrackedCategories ==
    /\ DOMAIN instStats.categories = CategoriesOfInstancesButNegativeIds
    /\ \A c \in DOMAIN instStats.categories :
           IsMemberIdsInTableOrder(instStats.categories[c].labelIds, c)

\* vehicle, which has the member license plate of id -1, is tracked and has
\* collected pixels of an instance; object, with pole, is not tracked
TrackedCategoriesWitness ==
    /\ pc = "loop"
    /\ "vehicle" \in DOMAIN instStats.categories
    /\ "object" \notin DOMAIN instStats.categories
    /\ \E k \in MemberRows("vehicle") : labels[k].id < 0
    /\ instStats.categories["vehicle"].tp > 0

\* C13 (one rule of false positives for both category scores): when the
\* scores are computed, for every tracked category the false positives of
\* the instance-level category score equal those of the pixel-level category
\* score.
SameCategoryFalsePositives ==
    pc = "report" =>
        \A c \in DOMAIN instStats.categories :
            instCategoryFp(c, confMatrix, instStats) = categoryFp(c, confMatrix)

\* road predicted as caravan, an ignored member of vehicle: the instance-level
\* score of vehicle counts the pixel as false positive, the pixel-level
\* score does not
CaravanColumnWitness ==
    /\ pc = "report"
    /\ confMatrix[7][11] > 0
    /\ categoryFp("vehicle", confMatrix) = 0
    /\ instCategoryFp("vehicle", confMatrix, instStats) = confMatrix[7][11]

Min(a, b) == IF a < b THEN a ELSE b

\* the labels evaluatePixelError writes a line of confusions for
LabelsWithSupport(cm) ==
    {label \in SeqToSet(evalLabels) : label >= 4 /\ labelGt(label, cm) > 0}

\* the counts of the reported columns of a label never rise along the report
\* and the label itself is not reported
DescendingWithoutSelf(cm, label) ==
    LET reported == reportedConfusions(cm, label)
    IN  /\ \A a, b \in DOMAIN reported :
               a < b => cm[label][reported[a]] >= cm[label][reported[b]]
        /\ \A a \in DOMAIN reported : reported[a] # label
        /\ \A c \in (0..maxId) \ (SeqToSet(reported) \cup {label}) :
               \A a \in DOMAIN reported : cm[label][c] <= cm[label][reported[a]]

\* C14 (five confusions per label): when the report has been written, for
\* every label of id >= 4 with ground-truth pixels the report holds the 5
\* other labels of largest count (fewer only if fewer than 5 others exist),
\* by descending count and never the label itself.
TopFiveConfusions ==
    pc = "score" =>
        \A label \in LabelsWithSupport(confMatrix) :
            /\ Len(reportedConfusions(confMatrix, label)) = Min(5, maxId)
            /\ DescendingWithoutSelf(confMatrix, label)

\* the report of road, which has pixels predicted as road and as sidewalk,
\* holds four columns, sidewalk first
FourConfusionsWitness ==
    /\ pc = "score"
    /\ confMatrix[7][7] > 0
    /\ confMatrix[7][8] > 0
    /\ Len(reportedConfusions(confMatrix, 7)) = 4
    /\ reportedConfusions(confMatrix, 7)[1] = 8
    /\ DescendingWithoutSelf(confMatrix, 7)

\* the counts of the reported cells never rise along the report, no cell
\* left out has a larger count than a reported one, and no reported cell is
\* on the diagonal or has a ground truth or prediction below 4
DescendingOffDiagonal(cm) ==
    LET reported == trueVsOtherReport(cm)
        CountOf(cell) == cm[cell[1]][cell[2]]
    IN  /\ \A a, b \in DOMAIN reported :
               a < b => CountOf(reported[a]) >= CountOf(reported[b])
        /\ \A a \in DOMAIN reported :
               /\ reported[a][1] # reported[a][2]
               /\ reported[a][1] >= 4
               /\ reported[a][2] >= 4
        /\ \A cell \in trueVsOtherCells \ SeqToSet(reported) :
               \A a \in DOMAIN reported : CountOf(cell) <= CountOf(reported[a])

\* C15 (ninety cells): when the report has been written it holds, by
\* descending count, the first min(90, K) cells, K being the number of cells
\* with ground truth # prediction and both >= 4; no cell of the diagonal and
\* no cell with an id below 4 is reported.
TopNinetyCells ==
    pc = "score" =>
        /\ Len(trueVsOtherReport(confMatrix)) = Min(90, Cardinality(trueVsOtherCells))
        /\ DescendingOffDiagonal(confMatrix)

\* ninety cells pass the test, road predicted as sidewalk comes first, and the
\* report holds 89 cells
EightyNineCellsWitness ==
    /\ pc = "score"
    /\ Cardinality(trueVsOtherCells) = 90
    /\ confMatrix[7][8] > 0
    /\ trueVsOtherReport(confMatrix)[1] = <<7, 8>>
    /\ Len(trueVsOtherReport(confMatrix)) = 89
    /\ DescendingOffDiagonal(confMatrix)

\* count as a percentage of all the pixels of the matrix
PercentOfAllPixels(cm, count) == Norm(<<count * 100, MatrixSum(cm)>>)

\* C16 (mismatch relative to all evaluated pixels): when the report has been
\* written over at least one pixel, the second value of every reported
\* column of evaluatePixelError and the value of every reported cell of
\* evaluateTrueVsOtherPixError is the count of the cell relative to the
\* number of pixels in the matrix, and no divisor is zero.
MismatchRelativeToAllPixels ==
    (pc = "score" /\ nbPixels > 0) =>
        /\ allNonEdgeTruePositives(confMatrix) # 0
        /\ \A label \in LabelsWithSupport(confMatrix) :
               \A c \in SeqToSet(reportedConfusions(confMatrix, label)) :
                   overallPixelError(confMatrix, label, c)
                       = PercentOfAllPixels(confMatrix, confMatrix[label][c])
        /\ \A cell \in SeqToSet(trueVsOtherReport(confMatrix)) :
               pixErrorPercentage(confMatrix, cell)
                   = PercentOfAllPixels(confMatrix, confMatrix[cell[1]][cell[2]])

\* two road pixels, one of them predicted as sidewalk: both reports give the
\* cell 100 percent, one pixel of the two being 50 percent
MismatchRelativeToCorrectPixelsWitness ==
    /\ pc = "score"
    /\ nbPixels = 2
    /\ confMatrix[7][7] = 1
    /\ confMatrix[7][8] = 1
    /\ 8 \in SeqToSet(reportedConfusions(confMatrix, 7))
    /\ <<7, 8>> \in SeqToSet(trueVsOtherReport(confMatrix))
    /\ overallPixelError(confMatrix, 7, 8) = Rat(100)
    /\ pixErrorPercentage(confMatrix, <<7, 8>>) = Rat(100)
    /\ PercentOfAllPixels(confMatrix, 1) = Rat(50)

\* no field of the entry after is below that of the entry before
GrownFrom(before, after) ==
    /\ after.tp >= before.tp
    /\ after.fn >= before.fn
    /\ RLeq(before.tpWeighted, after.tpWeighted)
    /\ RLeq(before.fnWeighted, after.fnWeighted)

\* C17 (accumulators only grow): in every step of a run no entry of the
\* confusion matrix and no tp, fn, tpWeighted or fnWeighted of a class or a
\* category gets smaller, the matrix keeps its (maxId+1) x (maxId+1) cells,
\* the tracked classes and categories stay the same and every labelIds
\* stays as generateInstanceStats built it.
AccumulatorsOnlyGrow ==
    [][/\ DOMAIN confMatrix' = 0..maxId
       /\ \A r \in 0..maxId :
              /\ DOMAIN confMatrix'[r] = 0..maxId
              /\ \A c \in 0..maxId : confMatrix'[r][c] >= confMatrix[r][c]
       /\ DOMAIN instStats'.classes = DOMAIN instStats.classes
       /\ \A n \in DOMAIN instStats.classes :
              GrownFrom(instStats.classes[n], instStats'.classes[n])
       /\ DOMAIN instStats'.categories = DOMAIN instStats.categories
       /\ \A c \in DOMAIN instStats.categories :
              /\ GrownFrom(instStats.categories[c], instStats'.categories[c])
              /\ instStats'.categories[c].labelIds = instStats.categories[c].labelIds
              /\ instStats'.categories[c].labelIds
                     = generateInstanceStats.categories[c].labelIds]_vars

\* two pairs were accumulated, each with pixels of a car instance: counts of
\* both pairs are in the matrix and in the statistics of car and vehicle
AccumulatorsWitness ==
    /\ pc = "loop"
    /\ i = 2
    /\ nbPixels = 4
    /\ pair.gt = <<10, 10>>
    /\ pair.pred = <<10, 7>>
    /\ confMatrix[10][10] >= 2
    /\ instStats.classes["car"].tp >= 2
    /\ instStats.classes["car"].fn >= 1
    /\ RLeq(Rat(avgClassSize["car"]), instStats.classes["car"].tpWeighted)
    /\ instStats.categories["vehicle"].tp >= 2
    /\ instStats.categories["vehicle"].labelIds = <<10, 11>>

\* the instance ids > 1000 of pair pr that belong to label id, and the
\* pixels of these instances
InstancesOfLabel(pr, id) ==
    {pr.inst[k] : k \in {j \in DOMAIN pr.inst :
                            pr.inst[j] > 1000 /\ pr.inst[j] \div 1000 = id}}

PixelsOfLabelInstances(pr, id) ==
    {k \in DOMAIN pr.inst : pr.inst[k] \in InstancesOfLabel(pr, id)}

\* the ids of the labels of category c that are not ignored
ScoredMembers(c) == {l \in ScoredIds : id2label[l].category = c}

PixelsOfCategoryInstances(pr, c) ==
    UNION {PixelsOfLabelInstances(pr, l) : l \in ScoredMembers(c)}

ClassesStartAtZero ==
    \A n \in DOMAIN generateInstanceStats.classes :
        generateInstanceStats.classes[n] = ZeroStats

===========================================================================
